---- MODULE Spec2Model ----
(***************************************************************************)
(* A model of biblib's LibraryView (src/biblib/views/library_view.py):     *)
(* the GET handler of one library, the reconciliation of the stored        *)
(* bibcodes with the canonical bibcodes of the solr bigquery, the          *)
(* timestamp sort and the authorization gate.                              *)
(*                                                                         *)
(* Identifiers (bibcodes) are the numbers 1..NumIds; their numeric order   *)
(* stands for the lexicographic order of the strings.  A python dict is a  *)
(* sequence of entries with distinct keys, in insertion order.             *)
(***************************************************************************)
EXTENDS Integers, Sequences, FiniteSets, TLC

\* Bounds of the model.
NumIds == 3
MaxTime == 2
MaxSolrDocs == 2
MaxStored == 2
MaxMutations == 3

Ids == 1..NumIds
Timestamps == 1..MaxTime

\* An entry of library.bibcode that has no "timestamp" key (a legacy entry).
NoTimestamp == 0

\* datetime.timestamp(library.date_created), the default timestamp.
date_created == 1

\* current_app.config.get('BIBLIB_MAX_ROWS', 100), and the defaults of the
\* query parameters.
BIBLIB_MAX_ROWS == 100
DefaultStart == 0
DefaultRows == 20

VARIABLES
    \* the database
    bibcode,        \* Library.bibcode as stored: a dict, [id, timestamp] entries
    public,         \* Library.public
    permissions,    \* Permissions rows of the library: user -> set of true flags
    date_last_modified, \* Library.date_last_modified, a time
    \* the request and the locals of LibraryView.get
    pc,             \* position of the handler
    request,        \* the request being served
    start, rows, raw_library, add_sort, service_uid,
    response,       \* how the email lookup of the owner ended, "none" before it
    library,        \* the expunged Library object: [bibcode, public]
    metadata, solr, updates, documents,
    token,          \* whether the Authorization header ends with the special token
    result,         \* the answer: [status, has_documents]
    \* history
    calls,          \* the calls of solr_update_library for the request:
                    \* [before, docs, after, written, updates]
    queried         \* whether solr_big_query was called for the request

database == <<bibcode, public, permissions, date_last_modified>>
locals == <<request, start, rows, raw_library, add_sort, service_uid, response,
            library, metadata, solr, updates, documents, token, result, queried>>
vars == <<database, pc, locals, calls>>

----------------------------------------------------------------------------
\* Python dictionaries and lists.

Range(s) == {s[i] : i \in DOMAIN s}

Keys(d) == {d[i].id : i \in DOMAIN d}

HasKey(d, k) == k \in Keys(d)

\* d[k]["timestamp"], for a key of d
Timestamp(d, k) == d[CHOOSE i \in DOMAIN d : d[i].id = k].timestamp

\* d[k] = v: replaces the value of a present key in place, appends a new key
DictSet(d, k, v) ==
    IF HasKey(d, k)
    THEN [i \in DOMAIN d |-> IF d[i].id = k THEN [id |-> k, timestamp |-> v] ELSE d[i]]
    ELSE Append(d, [id |-> k, timestamp |-> v])

\* The dictionary as a mapping, whatever its order
AsMapping(d) == Range(d)

----------------------------------------------------------------------------
\* solr_update_library (lines 172-248).

\* The accumulators before the loop (lines 185-193)
UpdateStart ==
    [new_bibcode |-> << >>, update |-> FALSE, num_updated |-> 0,
     duplicates_removed |-> 0, update_list |-> << >>]

\* canonical_bibcodes after the loop of lines 197-202
canonical_bibcodes(solr_docs) == {solr_docs[i].bibcode : i \in DOMAIN solr_docs}

\* The mapping in which an earlier doc of the answer wins over a later one
RECURSIVE alternate_bibcodes_first_wins(_)
alternate_bibcodes_first_wins(solr_docs) ==
    IF solr_docs = << >> THEN [i \in {} |-> i]
    ELSE LET n    == Len(solr_docs)
             doc  == solr_docs[n]
             rest == alternate_bibcodes_first_wins(SubSeq(solr_docs, 1, n - 1))
         IN [i \in (DOMAIN rest) \cup doc.alternate_bibcode |->
                IF i \in DOMAIN rest THEN rest[i] ELSE doc.bibcode]

\* alternate_bibcodes after the loop of lines 197-202: dict.update overwrites,
\* so a later doc of the answer wins over an earlier one
RECURSIVE alternate_bibcodes(_)
alternate_bibcodes(solr_docs) ==
    IF solr_docs = << >> THEN [i \in {} |-> i]
    ELSE LET n    == Len(solr_docs)
             doc  == solr_docs[n]
             rest == alternate_bibcodes(SubSeq(solr_docs, 1, n - 1))
         IN [i \in (DOMAIN rest) \cup doc.alternate_bibcode |->
                IF i \in doc.alternate_bibcode THEN doc.bibcode ELSE rest[i]]

\* The loop body with the alternate test before the canonical one
UpdateEntryAlternateFirst(acc, e, canonical, alternate) ==
    LET backfill == e.timestamp = NoTimestamp
        value    == IF backfill THEN date_created ELSE e.timestamp
        a1       == [acc EXCEPT !.update = @ \/ backfill]
    IN  IF e.id \in DOMAIN alternate
        THEN LET a2 == [a1 EXCEPT !.update = TRUE,
                                  !.num_updated = @ + 1,
                                  !.update_list = Append(@, <<e.id, alternate[e.id]>>)]
             IN IF ~HasKey(a2.new_bibcode, alternate[e.id])
                THEN [a2 EXCEPT !.new_bibcode = DictSet(@, alternate[e.id], value)]
                ELSE [a2 EXCEPT !.duplicates_removed = @ + 1]
        ELSE [a1 EXCEPT !.new_bibcode = DictSet(@, e.id, value)]

\* The loop body without its last branch: a bibcode solr does not know is
\* not copied
UpdateEntryDropUnknown(acc, e, canonical, alternate) ==
    LET backfill == e.timestamp = NoTimestamp
        value    == IF backfill THEN date_created ELSE e.timestamp
        a1       == [acc EXCEPT !.update = @ \/ backfill]
    IN  IF e.id \in canonical
        THEN [a1 EXCEPT !.new_bibcode = DictSet(@, e.id, value)]
        ELSE IF e.id \in DOMAIN alternate
        THEN LET a2 == [a1 EXCEPT !.update = TRUE,
                                  !.num_updated = @ + 1,
                                  !.update_list = Append(@, <<e.id, alternate[e.id]>>)]
             IN IF ~HasKey(a2.new_bibcode, alternate[e.id])
                THEN [a2 EXCEPT !.new_bibcode = DictSet(@, alternate[e.id], value)]
                ELSE [a2 EXCEPT !.duplicates_removed = @ + 1]
        ELSE a1

\* The loop body keeping the alternate bibcode beside its canonical one
UpdateEntryKeepAlternate(acc, e, canonical, alternate) ==
    LET backfill == e.timestamp = NoTimestamp
        value    == IF backfill THEN date_created ELSE e.timestamp
        a1       == [acc EXCEPT !.update = @ \/ backfill]
    IN  IF e.id \in canonical
        THEN [a1 EXCEPT !.new_bibcode = DictSet(@, e.id, value)]
        ELSE IF e.id \in DOMAIN alternate
        THEN LET a2 == [a1 EXCEPT !.update = TRUE,
                                  !.num_updated = @ + 1,
                                  !.update_list = Append(@, <<e.id, alternate[e.id]>>),
                                  !.new_bibcode = DictSet(@, e.id, value)]
             IN IF ~HasKey(a2.new_bibcode, alternate[e.id])
                THEN [a2 EXCEPT !.new_bibcode = DictSet(@, alternate[e.id], value)]
                ELSE [a2 EXCEPT !.duplicates_removed = @ + 1]
        ELSE [a1 EXCEPT !.new_bibcode = DictSet(@, e.id, value)]

\* The loop body giving the default timestamp without asking for the write
UpdateEntryBackfillUnflagged(acc, e, canonical, alternate) ==
    LET backfill == e.timestamp = NoTimestamp
        value    == IF backfill THEN date_created ELSE e.timestamp
        a1       == acc
    IN  IF e.id \in canonical
        THEN [a1 EXCEPT !.new_bibcode = DictSet(@, e.id, value)]
        ELSE IF e.id \in DOMAIN alternate
        THEN LET a2 == [a1 EXCEPT !.update = TRUE,
                                  !.num_updated = @ + 1,
                                  !.update_list = Append(@, <<e.id, alternate[e.id]>>)]
             IN IF ~HasKey(a2.new_bibcode, alternate[e.id])
                THEN [a2 EXCEPT !.new_bibcode = DictSet(@, alternate[e.id], value)]
                ELSE [a2 EXCEPT !.duplicates_removed = @ + 1]
        ELSE [a1 EXCEPT !.new_bibcode = DictSet(@, e.id, value)]

\* The loop body asking for the write of an entry without a timestamp, but
\* not giving it the default one
UpdateEntryNoBackfill(acc, e, canonical, alternate) ==
    LET backfill == e.timestamp = NoTimestamp
        value    == e.timestamp
        a1       == [acc EXCEPT !.update = @ \/ backfill]
    IN  IF e.id \in canonical
        THEN [a1 EXCEPT !.new_bibcode = DictSet(@, e.id, value)]
        ELSE IF e.id \in DOMAIN alternate
        THEN LET a2 == [a1 EXCEPT !.update = TRUE,
                                  !.num_updated = @ + 1,
                                  !.update_list = Append(@, <<e.id, alternate[e.id]>>)]
             IN IF ~HasKey(a2.new_bibcode, alternate[e.id])
                THEN [a2 EXCEPT !.new_bibcode = DictSet(@, alternate[e.id], value)]
                ELSE [a2 EXCEPT !.duplicates_removed = @ + 1]
        ELSE [a1 EXCEPT !.new_bibcode = DictSet(@, e.id, value)]

\* The loop body counting an entry given the default timestamp as updated
UpdateEntryCountsBackfill(acc, e, canonical, alternate) ==
    LET backfill == e.timestamp = NoTimestamp
        value    == IF backfill THEN date_created ELSE e.timestamp
        a1       == [acc EXCEPT !.update = @ \/ backfill,
                                !.num_updated = IF backfill THEN @ + 1 ELSE @]
    IN  IF e.id \in canonical
        THEN [a1 EXCEPT !.new_bibcode = DictSet(@, e.id, value)]
        ELSE IF e.id \in DOMAIN alternate
        THEN LET a2 == [a1 EXCEPT !.update = TRUE,
                                  !.num_updated = @ + 1,
                                  !.update_list = Append(@, <<e.id, alternate[e.id]>>)]
             IN IF ~HasKey(a2.new_bibcode, alternate[e.id])
                THEN [a2 EXCEPT !.new_bibcode = DictSet(@, alternate[e.id], value)]
                ELSE [a2 EXCEPT !.duplicates_removed = @ + 1]
        ELSE [a1 EXCEPT !.new_bibcode = DictSet(@, e.id, value)]

\* The loop body dropping a duplicate without counting it
UpdateEntryDuplicateUncounted(acc, e, canonical, alternate) ==
    LET backfill == e.timestamp = NoTimestamp
        value    == IF backfill THEN date_created ELSE e.timestamp
        a1       == [acc EXCEPT !.update = @ \/ backfill]
    IN  IF e.id \in canonical
        THEN [a1 EXCEPT !.new_bibcode = DictSet(@, e.id, value)]
        ELSE IF e.id \in DOMAIN alternate
        THEN LET a2 == [a1 EXCEPT !.update = TRUE,
                                  !.num_updated = @ + 1,
                                  !.update_list = Append(@, <<e.id, alternate[e.id]>>)]
             IN IF ~HasKey(a2.new_bibcode, alternate[e.id])
                THEN [a2 EXCEPT !.new_bibcode = DictSet(@, alternate[e.id], value)]
                ELSE a2
        ELSE [a1 EXCEPT !.new_bibcode = DictSet(@, e.id, value)]

\* One pass of the loop body, lines 208-233, for the stored entry e
UpdateEntry(acc, e, canonical, alternate) ==
    LET backfill == e.timestamp = NoTimestamp
        value    == IF backfill THEN date_created ELSE e.timestamp
        a1       == [acc EXCEPT !.update = @ \/ backfill]
    IN  IF e.id \in canonical
        THEN [a1 EXCEPT !.new_bibcode = DictSet(@, e.id, value)]
        ELSE IF e.id \in DOMAIN alternate
        THEN LET a2 == [a1 EXCEPT !.update = TRUE,
                                  !.num_updated = @ + 1,
                                  !.update_list = Append(@, <<e.id, alternate[e.id]>>)]
             IN IF ~HasKey(a2.new_bibcode, alternate[e.id])
                THEN [a2 EXCEPT !.new_bibcode = DictSet(@, alternate[e.id], value)]
                ELSE [a2 EXCEPT !.duplicates_removed = @ + 1]
        ELSE [a1 EXCEPT !.new_bibcode = DictSet(@, e.id, value)]

\* The loop of line 208 over the first n stored entries
RECURSIVE UpdateLoop(_, _, _, _)
UpdateLoop(lib, n, canonical, alternate) ==
    IF n = 0 THEN UpdateStart
    ELSE UpdateEntry(UpdateLoop(lib, n - 1, canonical, alternate), lib[n],
                     canonical, alternate)

\* solr_update_library: what is stored afterwards, and the dictionary returned
SolrUpdateLibrary(lib, solr_docs) ==
    LET acc == UpdateLoop(lib, Len(lib), canonical_bibcodes(solr_docs),
                          alternate_bibcodes(solr_docs))
    IN [bibcode |-> IF acc.update THEN acc.new_bibcode ELSE lib,
        written |-> acc.update,
        updates |-> [empty              |-> FALSE,
                     num_updated        |-> acc.num_updated,
                     duplicates_removed |-> acc.duplicates_removed,
                     update_list        |-> acc.update_list]]

----------------------------------------------------------------------------
\* Python lists: sorted() and slices.

Min(S) == CHOOSE x \in S : \A y \in S : x <= y

\* One insertion of the stable sort: p goes behind the pairs that do not
\* come after it
InsertStamped(sorted, p, reverse) ==
    LET later == {i \in DOMAIN sorted :
                     IF reverse THEN sorted[i][2] < p[2] ELSE sorted[i][2] > p[2]}
        k     == IF later = {} THEN Len(sorted) + 1 ELSE Min(later)
    IN SubSeq(sorted, 1, k - 1) \o <<p>> \o SubSeq(sorted, k, Len(sorted))

\* sorted(stamped, key=lambda stamped: stamped[1], reverse=reverse): stable in
\* both directions (lines 162 and 427)
RECURSIVE SortStamped(_, _)
SortStamped(stamped, reverse) ==
    IF stamped = << >> THEN << >>
    ELSE InsertStamped(SortStamped(SubSeq(stamped, 1, Len(stamped) - 1), reverse),
                       stamped[Len(stamped)], reverse)

Firsts(stamped) == [i \in DOMAIN stamped |-> stamped[i][1]]

\* list.sort() of a list of bibcodes (lines 431 and 440)
SortBibcodes(l) == Firsts(SortStamped([i \in DOMAIN l |-> <<l[i], l[i]>>], FALSE))

\* An index of a slice, brought into 0..n as python does
SliceIndex(i, n) ==
    IF i < 0 THEN (IF n + i < 0 THEN 0 ELSE n + i) ELSE IF i > n THEN n ELSE i

\* l[lo:hi]
PySlice(l, lo, hi) ==
    LET a == SliceIndex(lo, Len(l))
        b == SliceIndex(hi, Len(l))
    IN IF a < b THEN SubSeq(l, a + 1, b) ELSE << >>

\* Library.get_bibcodes(): the keys of library.bibcode, as a list
get_bibcodes(d) == [i \in DOMAIN d |-> d[i].id]

----------------------------------------------------------------------------
\* Users, permissions and the helpers of BaseView.

NoHeader == "no header"
None == "None"

\* The rows of the User table; "nobody" is an API user this service has no row for
Users == {"dave", "mary"}
AbsoluteUids == Users \cup {"nobody"}
Owner == "dave"
Flags == {"read", "write", "admin", "owner"}

helper_user_exists(absolute_uid) == absolute_uid \in Users

helper_absolute_uid_to_service_uid(absolute_uid) == absolute_uid

\* Whether the Permissions row of the user and the library has the flag set
helper_access_allowed(perms, uid, access_type) ==
    uid \in DOMAIN perms /\ access_type \in perms[uid]

\* read_access (lines 124-141)
read_access(perms, uid) ==
    \E access_type \in {"read", "write", "admin", "owner"} :
        helper_access_allowed(perms, uid, access_type)

\* The label with the read flag looked at before the write flag
main_permission_read_first(perms, uid) ==
    IF uid = None THEN "none"
    ELSE IF uid \notin DOMAIN perms THEN "none"
    ELSE IF "owner" \in perms[uid] THEN "owner"
    ELSE IF "admin" \in perms[uid] THEN "admin"
    ELSE IF "read" \in perms[uid] THEN "read"
    ELSE IF "write" \in perms[uid] THEN "write"
    ELSE "none"

\* main_permission of get_documents_from_library (lines 76-97)
main_permission(perms, uid) ==
    IF uid = None THEN "none"
    ELSE IF uid \notin DOMAIN perms THEN "none"
    ELSE IF "owner" \in perms[uid] THEN "owner"
    ELSE IF "admin" \in perms[uid] THEN "admin"
    ELSE IF "write" \in perms[uid] THEN "write"
    ELSE IF "read" \in perms[uid] THEN "read"
    ELSE "none"

\* num_users of get_documents_from_library (lines 99-104)
num_users(perms, label, is_public) ==
    IF label = "owner" \/ label = "admin" THEN Cardinality(DOMAIN perms)
    ELSE IF is_public THEN Cardinality(DOMAIN perms)
    ELSE 0

----------------------------------------------------------------------------
\* The request and its parsing (lines 322-378).

Absent == [kind |-> "absent", val |-> 0]
IntArg(n) == [kind |-> "int", val |-> n]
Bad == [kind |-> "bad", val |-> 0]
\* X-Adsws-Ratelimit-Level, in tenths; float() takes "inf"
Level(tenths) == [kind |-> "float", val |-> tenths]
Inf == [kind |-> "inf", val |-> 0]

\* max_rows of lines 331-335, for a level that float() and int() take
max_rows(level) ==
    IF level.kind = "absent" THEN BIBLIB_MAX_ROWS
    ELSE (BIBLIB_MAX_ROWS * level.val) \div 10

\* The try block of lines 329-343. int() of a bad start or rows and float()
\* of a bad level raise ValueError, which gives the defaults; int() of an
\* infinite max_rows raises OverflowError, which nothing catches
ParseArgs(req) ==
    LET defaults == [raised |-> FALSE, start |-> DefaultStart, rows |-> DefaultRows,
                     raw_library |-> FALSE]
    IN  IF req.start.kind = "bad" THEN defaults
        ELSE IF req.level.kind = "bad" THEN defaults
        ELSE IF req.level.kind = "inf" THEN [defaults EXCEPT !.raised = TRUE]
        ELSE IF req.rows.kind = "bad" THEN defaults
        ELSE [raised      |-> FALSE,
              start       |-> IF req.start.kind = "absent" THEN DefaultStart
                              ELSE req.start.val,
              rows        |-> LET r == IF req.rows.kind = "absent" THEN DefaultRows
                                       ELSE req.rows.val
                              IN IF r < max_rows(req.level) THEN r
                                 ELSE max_rows(req.level),
              raw_library |-> req.raw]

\* add_sort of lines 345-355
AddSort(sort) ==
    IF sort = "time desc" THEN "True"
    ELSE IF sort = "time asc" THEN "False"
    ELSE "None"

\* The handler taking a request without the header for an anonymous one
ParseErrorAnonymous(req) ==
    IF ParseArgs(req).raised THEN "500"
    ELSE IF req.library = "bad slug" THEN "BAD_LIBRARY_ID_ERROR"
    ELSE "none"

\* Lines 322-378: the error the handler leaves with before it fetches
\* anything, or "none"
ParseError(req) ==
    IF req.user = NoHeader THEN "MISSING_USERNAME_ERROR"
    ELSE IF ParseArgs(req).raised THEN "500"
    ELSE IF req.library = "bad slug" THEN "BAD_LIBRARY_ID_ERROR"
    ELSE "none"

\* service_uid of lines 373-378
ServiceUid(req) ==
    IF helper_user_exists(req.user)
    THEN helper_absolute_uid_to_service_uid(req.user)
    ELSE None

----------------------------------------------------------------------------
\* get_documents_from_library (lines 31-121).

EmailOutcomes == {"200", "not 200", "raises"}

\* Whether the function raises: no such library, not exactly one owner row,
\* or the email lookup raises (or answers 200 without an email); the lookup is
\* made only when the two queries before it gave their row
FetchRaises(library_id, perms, email) ==
    \/ library_id # "library"
    \/ Cardinality({u \in DOMAIN perms : "owner" \in perms[u]}) # 1
    \/ email = "raises"

\* metadata of lines 106-117 (name, id, description and the dates left out)
Metadata(lib, is_public, perms, uid, email) ==
    [num_documents |-> Len(lib),
     permission    |-> main_permission(perms, uid),
     public        |-> is_public,
     num_users     |-> num_users(perms, main_permission(perms, uid), is_public),
     owner         |-> IF email = "200" THEN Owner ELSE "Not available"]

----------------------------------------------------------------------------
\* The solr bigquery (solr_big_query of BaseView and the index behind it).

\* The records of the index: 1 is an alternate bibcode of 2, every other
\* bibcode is canonical
IndexRecords ==
    {[bibcode |-> 2, alternate_bibcode |-> {1}]} \cup
    {[bibcode |-> c, alternate_bibcode |-> {}] : c \in Ids \ {1, 2}}

Matching(bibcodes) ==
    {r \in IndexRecords :
        r.bibcode \in bibcodes \/ r.alternate_bibcode \cap bibcodes # {}}

Orderings(S) ==
    {f \in [1..Cardinality(S) -> S] :
        \A i, j \in 1..Cardinality(S) : i # j => f[i] # f[j]}

\* What .json() of the bigquery may give: no 'response' (or an exception),
\* a 'response' without 'docs', whose solr['response']['docs'] raises KeyError
\* at line 409, or the records matching the bibcodes, in the order of the
\* index, from start on and at most rows of them
SolrAnswers(bibcodes, from, count) ==
    {[kind |-> "error", docs |-> << >>], [kind |-> "no docs", docs |-> << >>]} \cup
    IF from >= 0 /\ count >= 0
    THEN {[kind |-> "response", docs |-> PySlice(o, from, from + count)] :
             o \in Orderings(Matching(bibcodes))}
    ELSE {}

\* Library.date_last_modified after a session has flushed: the UPDATE of the
\* row that line 240 commits gives the column the time of the flush, a later
\* time than it held (the column's onupdate)
onupdate(t) == t + 1

Flushed(written, t) == IF written THEN onupdate(t) ELSE t

\* The record of one call, kept as history
Call(lib, solr_docs) ==
    LET r == SolrUpdateLibrary(lib, solr_docs)
    IN  [before  |-> lib,
         docs    |-> solr_docs,
         after   |-> r.bibcode,
         written |-> r.written,
         updates |-> r.updates]

----------------------------------------------------------------------------
\* The inputs of the model.

StoredTimestamps == Timestamps \cup {NoTimestamp}

Injections(k) == {f \in [1..k -> Ids] : \A i, j \in 1..k : i # j => f[i] # f[j]}

\* The stored dicts of at most MaxStored bibcodes whose keys are 1, 2, ... in
\* insertion order: solr_update_library compares bibcodes only for equality,
\* so every other stored dict is one of these with its bibcodes renamed
Libraries ==
    UNION {{[i \in 1..k |-> [id |-> i, timestamp |-> t[i]]] :
               t \in [1..k -> StoredTimestamps]} :
           k \in 0..MaxStored}

\* The stored dicts of Libraries whose timestamps are all different and none
\* of them the default one: solr_update_library only copies a timestamp, so
\* every other stored dict is one of these with its timestamps renamed
DistinctLibraries ==
    UNION {{[i \in 1..k |-> [id |-> i,
                             timestamp |-> IF i \in legacy THEN NoTimestamp
                                           ELSE date_created + i]] :
               legacy \in SUBSET (1..k)} :
           k \in 0..MaxStored}

\* The stored dicts of at most MaxStored bibcodes, in every insertion order
AllLibraries ==
    UNION {{[i \in 1..k |-> [id |-> f[i], timestamp |-> t[i]]] :
               f \in Injections(k), t \in [1..k -> StoredTimestamps]} :
           k \in 0..MaxStored}

SolrDoc == {[bibcode |-> c, alternate_bibcode |-> a] :
               c \in Ids, a \in SUBSET Ids}

\* The docs of a bigquery answer: bibcode is solr's unique key
SolrDocs ==
    UNION {{d \in [1..k -> SolrDoc] :
               /\ \A i, j \in 1..k : i # j => d[i].bibcode # d[j].bibcode
               /\ \A i \in 1..k : d[i].bibcode \notin d[i].alternate_bibcode} :
           k \in 0..MaxSolrDocs}


----------------------------------------------------------------------------
\* The handler at rest.

NoRequest ==
    [user |-> NoHeader, library |-> "library", start |-> Absent, rows |-> Absent,
     level |-> Absent, raw |-> FALSE, sort |-> "date desc"]

NoLibrary == [bibcode |-> << >>, public |-> FALSE]

NoMetadata ==
    [num_documents |-> 0, permission |-> "none", public |-> FALSE,
     num_users |-> 0, owner |-> "Not available"]

NoSolr == [kind |-> "none", docs |-> << >>]

\* updates = {} (lines 421 and 438)
EmptyUpdates ==
    [empty |-> TRUE, num_updated |-> 0, duplicates_removed |-> 0,
     update_list |-> << >>]

NoResult == [status |-> "none", has_documents |-> FALSE]

\* err(ERROR): the error body and number, no 'documents' key
Err(error) == [status |-> error, has_documents |-> FALSE]

\* return response, 200
Ok == [status |-> "200", has_documents |-> TRUE]

AtRest ==
    [pc |-> "idle", start |-> DefaultStart, rows |-> DefaultRows,
     raw_library |-> FALSE, add_sort |-> "None", service_uid |-> None,
     response |-> "none", library |-> NoLibrary, metadata |-> NoMetadata, solr |-> NoSolr,
     updates |-> EmptyUpdates, documents |-> << >>, result |-> NoResult,
     queried |-> FALSE]

InitLocals ==
    /\ request = NoRequest
    /\ start = AtRest.start
    /\ rows = AtRest.rows
    /\ raw_library = AtRest.raw_library
    /\ add_sort = AtRest.add_sort
    /\ service_uid = AtRest.service_uid
    /\ response = AtRest.response
    /\ library = AtRest.library
    /\ metadata = AtRest.metadata
    /\ solr = AtRest.solr
    /\ updates = AtRest.updates
    /\ documents = AtRest.documents
    /\ token = FALSE
    /\ result = AtRest.result
    /\ queried = AtRest.queried

----------------------------------------------------------------------------
\* LibraryView.get (lines 322-495), one action per transaction.

\* documents of the raw library and of the fallback without a time sort
\* (lines 430-432 and 439-441)
SortedWindow(lib, from, count) ==
    PySlice(SortBibcodes(get_bibcodes(lib)), from, from + count)

\* Lines 322-441 up to the first transaction after the bigquery: the locals
\* and where the handler is afterwards
GetOutcome(req, email, answer) ==
    LET args    == ParseArgs(req)
        uid     == ServiceUid(req)
        parsed  == [AtRest EXCEPT !.start = args.start, !.rows = args.rows,
                                  !.raw_library = args.raw_library,
                                  !.add_sort = AddSort(req.sort),
                                  !.service_uid = uid]
        called  == [parsed EXCEPT
                       !.response = IF FetchRaises(req.library, permissions, "200")
                                    THEN "none" ELSE email]
        fetched == [called EXCEPT
                       !.library = [bibcode |-> bibcode, public |-> public],
                       !.metadata = Metadata(bibcode, public, permissions, uid, email)]
    IN  IF ParseError(req) # "none"
        THEN [AtRest EXCEPT !.pc = "done", !.result = Err(ParseError(req))]
        ELSE IF FetchRaises(req.library, permissions, email)
        THEN [called EXCEPT !.pc = "done", !.result = Err("MISSING_LIBRARY_ERROR")]
        ELSE IF args.raw_library
        THEN [fetched EXCEPT !.pc = "assembled",
                             !.solr = [kind |-> "raw", docs |-> << >>],
                             !.documents = SortedWindow(bibcode, args.start, args.rows)]
        ELSE IF answer.kind = "no docs"
        THEN [fetched EXCEPT !.pc = "done", !.solr = answer, !.queried = TRUE,
                             !.result = Err("MISSING_LIBRARY_ERROR")]
        ELSE IF answer.kind = "response"
        THEN [fetched EXCEPT !.pc = "queried", !.solr = answer, !.queried = TRUE]
        ELSE IF AddSort(req.sort) # "None"
        THEN [fetched EXCEPT !.pc = "fallback", !.queried = TRUE,
                             !.solr = [kind |-> "mismatch", docs |-> << >>]]
        ELSE [fetched EXCEPT !.pc = "assembled", !.queried = TRUE,
                             !.solr = [kind |-> "mismatch", docs |-> << >>],
                             !.documents = SortedWindow(bibcode, args.start, args.rows)]

Get(Requests, Emails) ==
    /\ pc = "idle"
    /\ \E req \in Requests, email \in Emails :
         \E answer \in SolrAnswers(Keys(bibcode), ParseArgs(req).start,
                                   ParseArgs(req).rows) :
            LET o == GetOutcome(req, email, answer)
            IN  /\ request' = req
                /\ pc' = o.pc
                /\ start' = o.start
                /\ rows' = o.rows
                /\ raw_library' = o.raw_library
                /\ add_sort' = o.add_sort
                /\ service_uid' = o.service_uid
                /\ response' = o.response
                /\ library' = o.library
                /\ metadata' = o.metadata
                /\ solr' = o.solr
                /\ updates' = o.updates
                /\ documents' = o.documents
                /\ result' = o.result
                /\ queried' = o.queried
    /\ UNCHANGED <<database, token, calls>>

\* documents of line 414
DocBibcodes(docs) == [i \in DOMAIN docs |-> docs[i].bibcode]

\* Lines 405-414 with an exception after solr_update_library has committed
SolrUpdateRaisesAfterCommit ==
    /\ pc = "queried"
    /\ LET r == SolrUpdateLibrary(bibcode, solr.docs)
       IN /\ bibcode' = r.bibcode
          /\ date_last_modified' = Flushed(r.written, date_last_modified)
          /\ updates' = r.updates
    /\ calls' = Append(calls, Call(bibcode, solr.docs))
    /\ pc' = "done"
    /\ result' = Err("MISSING_LIBRARY_ERROR")
    /\ UNCHANGED <<public, permissions, request, start, rows, raw_library,
                   add_sort, service_uid, response, library, metadata, solr,
                   documents, token, queried>>

\* Lines 405-414 without the call of solr_update_library
SolrUpdateSkipped ==
    /\ pc = "queried"
    /\ IF add_sort = "True"
       THEN pc' = "sorting" /\ UNCHANGED documents
       ELSE pc' = "assembled" /\ documents' = DocBibcodes(solr.docs)
    /\ UNCHANGED <<database, request, start, rows, raw_library, add_sort,
                   service_uid, response, library, metadata, solr, updates,
                   token, result, queried, calls>>

\* Lines 405-414 with a solr_update_library that works on the bibcodes of the
\* library object fetched before the bigquery
SolrUpdateFromSnapshot ==
    /\ pc = "queried"
    /\ LET r == SolrUpdateLibrary(library.bibcode, solr.docs)
       IN /\ bibcode' = IF r.written THEN r.bibcode ELSE bibcode
          /\ date_last_modified' = Flushed(r.written, date_last_modified)
          /\ updates' = r.updates
    /\ calls' = Append(calls, Call(library.bibcode, solr.docs))
    /\ IF add_sort = "True"
       THEN pc' = "sorting" /\ UNCHANGED documents
       ELSE pc' = "assembled" /\ documents' = DocBibcodes(solr.docs)
    /\ UNCHANGED <<public, permissions, request, start, rows, raw_library,
                   add_sort, service_uid, response, library, metadata, solr,
                   token, result, queried>>

\* Lines 405-414 with a write of solr_update_library that leaves
\* date_last_modified as it was
SolrUpdateUnstamped ==
    /\ pc = "queried"
    /\ LET r == SolrUpdateLibrary(bibcode, solr.docs)
       IN /\ bibcode' = r.bibcode
          /\ updates' = r.updates
    /\ calls' = Append(calls, Call(bibcode, solr.docs))
    /\ IF add_sort = "True"
       THEN pc' = "sorting" /\ UNCHANGED documents
       ELSE pc' = "assembled" /\ documents' = DocBibcodes(solr.docs)
    /\ UNCHANGED <<public, permissions, date_last_modified, request, start, rows,
                   raw_library, add_sort, service_uid, response, library,
                   metadata, solr, token, result, queried>>

\* Lines 405-414: solr_update_library in its transaction, and the documents
\* when no timestamp sort follows (if add_sort: is false for None and False)
SolrUpdate ==
    /\ pc = "queried"
    /\ LET r == SolrUpdateLibrary(bibcode, solr.docs)
       IN /\ bibcode' = r.bibcode
          /\ date_last_modified' = Flushed(r.written, date_last_modified)
          /\ updates' = r.updates
    /\ calls' = Append(calls, Call(bibcode, solr.docs))
    /\ IF add_sort = "True"
       THEN pc' = "sorting" /\ UNCHANGED documents
       ELSE pc' = "assembled" /\ documents' = DocBibcodes(solr.docs)
    /\ UNCHANGED <<public, permissions, request, start, rows, raw_library,
                   add_sort, service_uid, response, library, metadata, solr,
                   token, result, queried>>

\* timestamp_sort (lines 144-169): a bibcode of the answer that is not stored,
\* or stored without a timestamp, raises inside the try and leaves the order
TimestampSorted(docs, lib, reverse) ==
    IF \A i \in DOMAIN docs :
          HasKey(lib, docs[i].bibcode) /\ Timestamp(lib, docs[i].bibcode) # NoTimestamp
    THEN Firsts(SortStamped([i \in DOMAIN docs |->
                                <<docs[i], Timestamp(lib, docs[i].bibcode)>>], reverse))
    ELSE docs

\* Lines 411-414 with add_sort true
TimestampSort ==
    /\ pc = "sorting"
    /\ solr' = [solr EXCEPT !.docs = TimestampSorted(solr.docs, bibcode,
                                                     add_sort = "True")]
    /\ documents' = DocBibcodes(solr'.docs)
    /\ pc' = "assembled"
    /\ UNCHANGED <<database, request, start, rows, raw_library, add_sort,
                   service_uid, response, library, metadata, updates, token,
                   result, queried, calls>>

\* Lines 422-432: the stored bibcodes of a new session, with the timestamps
\* of the library object fetched before; a missing key raises KeyError, which
\* the handler turns into MISSING_LIBRARY_ERROR (lines 451-456)
FallbackRaises(stored, lib) ==
    \E k \in Keys(stored) : ~HasKey(lib, k) \/ Timestamp(lib, k) = NoTimestamp

FallbackSorted(stored, lib, reverse) ==
    Firsts(SortStamped([i \in DOMAIN stored |->
                           <<stored[i].id, Timestamp(lib, stored[i].id)>>], reverse))

FallbackTimeSort ==
    /\ pc = "fallback"
    /\ IF FallbackRaises(bibcode, library.bibcode)
       THEN /\ pc' = "done"
            /\ result' = Err("MISSING_LIBRARY_ERROR")
            /\ UNCHANGED documents
       ELSE /\ pc' = "assembled"
            /\ documents' = PySlice(FallbackSorted(bibcode, library.bibcode,
                                                   add_sort = "True"),
                                    start, start + rows)
            /\ UNCHANGED result
    /\ UNCHANGED <<database, request, start, rows, raw_library, add_sort,
                   service_uid, response, library, metadata, solr, updates,
                   token, queried, calls>>

\* Lines 458-495: the authorization gate
GateResult(is_public, has_token, user, perms) ==
    IF is_public \/ has_token THEN Ok
    ELSE IF ~helper_user_exists(user) THEN Err("NO_PERMISSION_ERROR")
    ELSE IF ~read_access(perms, helper_absolute_uid_to_service_uid(user))
    THEN Err("NO_PERMISSION_ERROR")
    ELSE Ok

Gate(Tokens) ==
    /\ pc = "assembled"
    /\ \E has_token \in Tokens :
          /\ token' = has_token
          /\ result' = GateResult(library.public, has_token, request.user,
                                  permissions)
    /\ pc' = "done"
    /\ UNCHANGED <<database, request, start, rows, raw_library, add_sort,
                   service_uid, response, library, metadata, solr, updates,
                   documents, queried, calls>>

\* The answer has left; the handler is ready for the next request
Finish ==
    /\ pc = "done"
    /\ pc' = "idle"
    /\ request' = NoRequest
    /\ start' = AtRest.start
    /\ rows' = AtRest.rows
    /\ raw_library' = AtRest.raw_library
    /\ add_sort' = AtRest.add_sort
    /\ service_uid' = AtRest.service_uid
    /\ response' = AtRest.response
    /\ library' = AtRest.library
    /\ metadata' = AtRest.metadata
    /\ solr' = AtRest.solr
    /\ updates' = AtRest.updates
    /\ documents' = AtRest.documents
    /\ token' = FALSE
    /\ result' = AtRest.result
    /\ queried' = AtRest.queried
    /\ calls' = << >>
    /\ UNCHANGED database

\* PermissionView.post: the owner sets or clears one flag of another user;
\* the row is made when the user has none
PermissionPost(user, flag, value) ==
    /\ pc # "done"
    /\ LET old == IF user \in DOMAIN permissions THEN permissions[user] ELSE {}
       IN permissions' =
              [u \in DOMAIN permissions \cup {user} |->
                  IF u = user
                  THEN (IF value THEN old \cup {flag} ELSE old \ {flag})
                  ELSE permissions[u]]
    /\ UNCHANGED <<bibcode, public, date_last_modified, pc, locals, calls>>

----------------------------------------------------------------------------
\* The read path of one library, with permissions granted and revoked.  What
\* is looked at here is who is answered and what is written, not the order of
\* the documents: the stored timestamps are all different.

Sorts == {"date desc", "time asc", "time desc"}

\* Requests with the default start, rows and rate limit level
Requests ==
    [user : {NoHeader} \cup AbsoluteUids, library : {"library", "unknown", "bad slug"},
     start : {Absent}, rows : {Absent}, level : {Absent}, raw : BOOLEAN,
     sort : Sorts]

Init ==
    /\ bibcode \in DistinctLibraries
    /\ public \in BOOLEAN
    /\ permissions = [u \in {Owner} |-> {"owner"}]
    /\ date_last_modified = date_created
    /\ pc = "idle"
    /\ InitLocals
    /\ calls = << >>

Next ==
    \/ Get(Requests, EmailOutcomes)
    \/ SolrUpdate
    \/ TimestampSort
    \/ FallbackTimeSort
    \/ Gate(BOOLEAN)
    \/ Finish
    \/ \E user \in Users \ {Owner}, flag \in Flags \ {"owner"}, value \in BOOLEAN :
          PermissionPost(user, flag, value)

Spec == Init /\ [][Next]_vars

----------------------------------------------------------------------------
\* The read path for the owner of a private library, with every start, rows,
\* rate limit level, raw flag and sort, on stored dicts in every order; the
\* email lookup answers and no special token is sent.

ReadRequests ==
    [user : {Owner}, library : {"library"},
     start : {Absent, Bad, IntArg(-1), IntArg(1), IntArg(NumIds)},
     rows : {Absent, Bad, IntArg(-1), IntArg(1)},
     level : {Absent, Bad, Inf, Level(1)},
     raw : BOOLEAN, sort : Sorts]

InitRead ==
    /\ bibcode \in AllLibraries
    /\ public = FALSE
    /\ permissions = [u \in {Owner} |-> {"owner"}]
    /\ date_last_modified = date_created
    /\ pc = "idle"
    /\ InitLocals
    /\ calls = << >>

NextRead ==
    \/ Get(ReadRequests, {"200"})
    \/ SolrUpdate
    \/ TimestampSort
    \/ FallbackTimeSort
    \/ Gate({FALSE})
    \/ Finish

SpecRead == InitRead /\ [][NextRead]_vars

----------------------------------------------------------------------------
\* solr_update_library on every stored library and every answer, run twice
\* with the same answer.

InitReconcile ==
    /\ bibcode \in DistinctLibraries
    /\ public = FALSE
    /\ permissions = [u \in {Owner} |-> {"owner"}]
    /\ date_last_modified = date_created
    /\ pc = "stored"
    /\ request = NoRequest
    /\ start = AtRest.start
    /\ rows = AtRest.rows
    /\ raw_library = AtRest.raw_library
    /\ add_sort = AtRest.add_sort
    /\ service_uid = AtRest.service_uid
    /\ response = AtRest.response
    /\ library = AtRest.library
    /\ metadata = AtRest.metadata
    /\ solr \in {[kind |-> "response", docs |-> d] : d \in SolrDocs}
    /\ updates = AtRest.updates
    /\ documents = AtRest.documents
    /\ token = FALSE
    /\ result = AtRest.result
    /\ queried = TRUE
    /\ calls = << >>

\* solr_update_library in its transaction (lines 204-248)
RunSolrUpdateLibrary ==
    /\ pc \in {"stored", "once"}
    /\ LET r == SolrUpdateLibrary(bibcode, solr.docs)
       IN /\ bibcode' = r.bibcode
          /\ date_last_modified' = Flushed(r.written, date_last_modified)
          /\ updates' = r.updates
    /\ calls' = Append(calls, Call(bibcode, solr.docs))
    /\ pc' = IF pc = "stored" THEN "once" ELSE "twice"
    /\ UNCHANGED <<public, permissions, request, start, rows, raw_library,
                   add_sort, service_uid, response, library, metadata, solr,
                   documents, token, result, queried>>

NextReconcile == RunSolrUpdateLibrary

SpecReconcile == InitReconcile /\ [][NextReconcile]_vars

----------------------------------------------------------------------------
\* Two calls of solr_update_library for the same library and the same answer,
\* each in its own database session.  pc, library and updates are here
\* functions of the session: library[p] is the row that the query of line
\* 205 gave to p, and the commit of line 240 replaces the stored dict.

Sessions == {1, 2}

InitConcurrent ==
    /\ bibcode \in DistinctLibraries
    /\ public = FALSE
    /\ permissions = [u \in {Owner} |-> {"owner"}]
    /\ date_last_modified = date_created
    /\ pc = [p \in Sessions |-> "start"]
    /\ request = NoRequest
    /\ start = AtRest.start
    /\ rows = AtRest.rows
    /\ raw_library = AtRest.raw_library
    /\ add_sort = AtRest.add_sort
    /\ service_uid = AtRest.service_uid
    /\ response = AtRest.response
    /\ library = [p \in Sessions |-> NoLibrary]
    /\ metadata = AtRest.metadata
    /\ solr \in {[kind |-> "response", docs |-> d] : d \in SolrDocs}
    /\ updates = [p \in Sessions |-> EmptyUpdates]
    /\ documents = AtRest.documents
    /\ token = FALSE
    /\ result = AtRest.result
    /\ queried = TRUE
    /\ calls = << >>

\* Line 205: the session reads the row; the session that reads first is
\* called 1
QueryLibrary(p) ==
    /\ pc[p] = "start"
    /\ \A q \in Sessions : q < p => pc[q] # "start"
    /\ library' = [library EXCEPT ![p] = [bibcode |-> bibcode, public |-> public]]
    /\ pc' = [pc EXCEPT ![p] = "read"]
    /\ UNCHANGED <<database, request, start, rows, raw_library, add_sort,
                   service_uid, response, metadata, solr, updates, documents,
                   token, result, queried, calls>>

\* Lines 208-248: the loop on the row read, and the commit if update is set
CommitLibrary(p) ==
    /\ pc[p] = "read"
    /\ LET r == SolrUpdateLibrary(library[p].bibcode, solr.docs)
       IN /\ bibcode' = IF r.written THEN r.bibcode ELSE bibcode
          /\ date_last_modified' = Flushed(r.written, date_last_modified)
          /\ updates' = [updates EXCEPT ![p] = r.updates]
    /\ calls' = Append(calls, Call(library[p].bibcode, solr.docs))
    /\ pc' = [pc EXCEPT ![p] = "done"]
    /\ UNCHANGED <<public, permissions, request, start, rows, raw_library,
                   add_sort, service_uid, response, library, metadata, solr,
                   documents, token, result, queried>>

NextConcurrent ==
    \/ \E p \in Sessions : QueryLibrary(p)
    \/ \E p \in Sessions : CommitLibrary(p)

SpecConcurrent == InitConcurrent /\ [][NextConcurrent]_vars

----------------------------------------------------------------------------
\* The read path of the owner while documents are added to the library and
\* removed from it by other requests.

\* DocumentView.post with action add: a bibcode that is not stored is stored
\* with the time of the request; the row is updated
DocumentAdd(identifier, at_time) ==
    /\ date_last_modified < date_created + MaxMutations
    /\ ~HasKey(bibcode, identifier)
    /\ Len(bibcode) < MaxStored
    /\ bibcode' = Append(bibcode, [id |-> identifier, timestamp |-> at_time])
    /\ date_last_modified' = onupdate(date_last_modified)
    /\ UNCHANGED <<public, permissions, pc, locals, calls>>

\* DocumentView.post with action remove: a stored bibcode is deleted; the row
\* is updated
DocumentRemove(identifier) ==
    /\ date_last_modified < date_created + MaxMutations
    /\ HasKey(bibcode, identifier)
    /\ bibcode' = SelectSeq(bibcode, LAMBDA e : e.id # identifier)
    /\ date_last_modified' = onupdate(date_last_modified)
    /\ UNCHANGED <<public, permissions, pc, locals, calls>>

\* Requests of the owner with the defaults
MutateRequests ==
    [user : {Owner}, library : {"library"}, start : {Absent}, rows : {Absent},
     level : {Absent}, raw : {FALSE}, sort : {"date desc"}]

InitMutate ==
    /\ bibcode \in DistinctLibraries
    /\ public = FALSE
    /\ permissions = [u \in {Owner} |-> {"owner"}]
    /\ date_last_modified = date_created
    /\ pc = "idle"
    /\ InitLocals
    /\ calls = << >>

NextMutate ==
    \/ Get(MutateRequests, {"200"})
    \/ SolrUpdate
    \/ Gate({FALSE})
    \/ Finish
    \/ \E identifier \in Ids, at_time \in {MaxTime} : DocumentAdd(identifier, at_time)
    \/ \E identifier \in Ids : DocumentRemove(identifier)

SpecMutate == InitMutate /\ [][NextMutate]_vars

----------------------------------------------------------------------------
\* Properties of solr_update_library, checked under SpecReconcile.

\* The timestamp an entry is kept with: its own, or the default one
Stamp(e) == IF e.timestamp = NoTimestamp THEN date_created ELSE e.timestamp

\* The key a stored bibcode is kept under, given the docs of the answer
Target(k, docs) ==
    IF k \in canonical_bibcodes(docs) THEN k
    ELSE IF k \in DOMAIN alternate_bibcodes(docs) THEN alternate_bibcodes(docs)[k]
    ELSE k

LastCall == calls[Len(calls)]

\* The key each entry read by the call c is kept under, by its position
Targets(c) ==
    LET canonical == canonical_bibcodes(c.docs)
        alternate == alternate_bibcodes(c.docs)
    IN  [i \in DOMAIN c.before |->
            IF c.before[i].id \in canonical THEN c.before[i].id
            ELSE IF c.before[i].id \in DOMAIN alternate
            THEN alternate[c.before[i].id]
            ELSE c.before[i].id]

\* C1: the metadata stored under a canonical bibcode after the reconciliation
\* is that of the first stored bibcode, in iteration order, that is the
\* canonical bibcode itself or an alternate of it; and stored {A: t1, B: t2}
\* with the doc (bibcode B, alternate A) gives {B: t1}, num_updated 1,
\* duplicates_removed 0 and update_list [{A: B}].
C1_EarliestMetadataWins ==
    \A n \in DOMAIN calls :
        LET c == calls[n]
        IN  /\ \A i \in DOMAIN c.before :
                  LET t == Target(c.before[i].id, c.docs)
                  IN  (/\ t \in canonical_bibcodes(c.docs)
                       /\ \A j \in 1..(i - 1) : Target(c.before[j].id, c.docs) # t)
                      => /\ HasKey(c.after, t)
                         /\ Timestamp(c.after, t) = Stamp(c.before[i])
            /\ (/\ Len(c.before) = 2
                /\ c.before[1].id = 1 /\ c.before[1].timestamp # NoTimestamp
                /\ c.before[2].id = 2 /\ c.before[2].timestamp # NoTimestamp
                /\ c.docs = <<[bibcode |-> 2, alternate_bibcode |-> {1}]>>)
               => /\ c.after = <<[id |-> 2, timestamp |-> c.before[1].timestamp]>>
                  /\ c.updates = [empty |-> FALSE, num_updated |-> 1,
                                  duplicates_removed |-> 0,
                                  update_list |-> << <<1, 2>> >>]

\* C2: a second run of solr_update_library with the same answer leaves the
\* stored bibcodes as the first run left them and returns num_updated 0,
\* duplicates_removed 0 and an empty update_list.
C2_SecondRunChangesNothing ==
    Len(calls) = 2 =>
        /\ calls[2].docs = calls[1].docs
        /\ calls[2].before = calls[1].after
        /\ bibcode = calls[1].after
        /\ updates = [empty |-> FALSE, num_updated |-> 0, duplicates_removed |-> 0,
                      update_list |-> << >>]

\* The second run has ended after a first run that remapped and merged
C2_Witness ==
    /\ Len(calls) = 2
    /\ calls[1].updates.num_updated > 0
    /\ calls[1].updates.duplicates_removed > 0
    /\ calls[1].after # calls[1].before

\* C3: a stored bibcode that is neither canonical nor an alternate in the
\* answer is stored afterwards under its own key with its timestamp (the
\* default one if it had none), and a stored bibcode that is canonical in the
\* answer is stored afterwards under its own key.
C3_UnexplainedBibcodesKept ==
    calls # << >> =>
        \A i \in DOMAIN LastCall.before :
            LET e == LastCall.before[i]
            IN  /\ (e.id \notin canonical_bibcodes(LastCall.docs)
                    /\ e.id \notin DOMAIN alternate_bibcodes(LastCall.docs))
                   => /\ HasKey(bibcode, e.id)
                      /\ Timestamp(bibcode, e.id) = Stamp(e)
                /\ e.id \in canonical_bibcodes(LastCall.docs) => HasKey(bibcode, e.id)

\* A run that rewrote the library while one of its bibcodes was unknown to
\* solr and another one canonical
C3_Witness ==
    /\ calls # << >>
    /\ LastCall.written
    /\ LastCall.updates.num_updated > 0
    /\ \E i \in DOMAIN LastCall.before :
          /\ LastCall.before[i].id \notin canonical_bibcodes(LastCall.docs)
          /\ LastCall.before[i].id \notin DOMAIN alternate_bibcodes(LastCall.docs)
          /\ LastCall.before[i].timestamp # NoTimestamp

\* C4: solr_update_library never leaves more bibcodes stored than it found.
C4_NeverMoreBibcodes ==
    calls # << >> =>
        /\ bibcode = LastCall.after
        /\ Len(bibcode) <= Len(LastCall.before)
        /\ Cardinality(Keys(bibcode)) = Len(bibcode)

\* A run that merged two stored bibcodes into one
C4_Witness ==
    /\ calls # << >>
    /\ Len(bibcode) < Len(LastCall.before)
    /\ LastCall.updates.duplicates_removed > 0

----------------------------------------------------------------------------
\* Properties of the read path, checked under SpecRead.

Min2(a, b) == IF a < b THEN a ELSE b
Max2(a, b) == IF a > b THEN a ELSE b

\* C5: a read with sort 'time asc' whose bigquery succeeded returns the
\* bibcodes of the window by ascending stored timestamp, and one with
\* 'time desc' by descending stored timestamp.
C5_TimeSortOrdersByTimestamp ==
    (/\ pc = "assembled"
     /\ solr.kind = "response"
     /\ request.sort \in {"time asc", "time desc"})
    => /\ \A i \in DOMAIN documents : HasKey(bibcode, documents[i])
       /\ \A i, j \in DOMAIN documents :
              i < j =>
                 IF request.sort = "time asc"
                 THEN Timestamp(bibcode, documents[i]) <= Timestamp(bibcode, documents[j])
                 ELSE Timestamp(bibcode, documents[i]) >= Timestamp(bibcode, documents[j])

\* C9: in raw mode and in the fallback after a failed bigquery, the number
\* of bibcodes returned is min(rows, max(0, total - start)) for every start
\* and rows the parser takes, and the read does not end in an error.
C9_WindowLength ==
    /\ (pc = "assembled" /\ solr.kind \in {"raw", "mismatch"})
       => Len(documents) = Min2(rows, Max2(0, Len(library.bibcode) - start))
    /\ (pc = "done" /\ solr.kind \in {"raw", "mismatch"}) => result = Ok

\* C10: the rows used for the bigquery and for the window is never above the
\* configured maximum scaled by the rate limit level, also when the defaults
\* are taken after an invalid input, and an invalid start, rows or level does
\* not fail the request.
C10_RowsNeverAboveMaximum ==
    (pc # "idle" /\ ParseError(request) = "none")
    => /\ request.level.kind \in {"absent", "float"} => rows <= max_rows(request.level)
       /\ result.status # "500"

----------------------------------------------------------------------------
\* Properties of the authorization, checked under Spec.

\* C6 as claimed: a read without the identity header is denied with
\* NO_PERMISSION_ERROR on a private library and answered 200 with the
\* documents on a public one.
C6_NoHeaderIsAnonymous ==
    (pc = "done" /\ request.user = NoHeader /\ request.library = "library")
    => IF public THEN result = Ok ELSE result = Err("NO_PERMISSION_ERROR")

\* C6, amended: a read without the identity header ends with
\* MISSING_USERNAME_ERROR and no 'documents' key, on a private and on a public
\* library alike, before anything is fetched.
C6_NoHeaderIsMissingUsername ==
    (pc = "done" /\ request.user = NoHeader)
    => /\ result = Err("MISSING_USERNAME_ERROR")
       /\ ~result.has_documents
       /\ ~queried
       /\ library = NoLibrary

\* A read without the header of a public library has ended
C6_Witness ==
    /\ pc = "done"
    /\ request.user = NoHeader
    /\ request.library = "library"
    /\ public
    /\ result.status = "MISSING_USERNAME_ERROR"

\* C7: a read of a private library by an identified user without the special
\* token is answered 200 with the documents exactly when the user holds one
\* of the read, write, admin and owner flags, and with NO_PERMISSION_ERROR
\* without documents otherwise.
C7_ReadFollowsPermissions ==
    (/\ pc = "done"
     /\ request.user \in AbsoluteUids
     /\ request.library = "library"
     /\ ~public
     /\ ~token)
    => IF read_access(permissions, request.user)
       THEN result = Ok
       ELSE result = Err("NO_PERMISSION_ERROR")

\* C8: a user whose role is write, admin or owner has read access, and a read
\* of the private library by that user is answered 200 with the documents.
C8_MutatorsMayRead ==
    \A u \in Users :
        main_permission(permissions, u) \in {"write", "admin", "owner"}
        => /\ read_access(permissions, u)
           /\ (/\ pc = "done"
               /\ request.user = u
               /\ request.library = "library"
               /\ ~public
               /\ ~token)
              => result = Ok

----------------------------------------------------------------------------
\* Properties of the raw library and of the fallback, checked under SpecRead.

\* C11: a read that asks for the raw library, with whatever start, rows and
\* rate limit level, valid or not, makes no bigquery, runs no
\* solr_update_library and leaves the stored bibcodes as they were.
C11_RawNeverQueries ==
    (request.raw /\ pc # "idle" /\ ParseError(request) = "none")
    => /\ ~queried
       /\ calls = << >>
       /\ solr.kind \in {"none", "raw"}
       /\ bibcode = library.bibcode

\* The stored bibcodes in the order the fallback is to give for a sort
LocallySorted(o, lib, sort) ==
    /\ o \in Orderings(Keys(lib))
    /\ \A i, j \in DOMAIN o :
          i < j =>
             IF sort = "time asc"
             THEN Stamp([timestamp |-> Timestamp(lib, o[i])])
                     <= Stamp([timestamp |-> Timestamp(lib, o[j])])
             ELSE IF sort = "time desc"
             THEN Stamp([timestamp |-> Timestamp(lib, o[i])])
                     >= Stamp([timestamp |-> Timestamp(lib, o[j])])
             ELSE o[i] < o[j]

\* C12: when the bigquery fails or gives no usable response, then for every
\* stored dict, entries without a timestamp included, and every sort, no
\* solr_update_library runs, nothing is written and the read answers the
\* stored bibcodes, sorted locally and cut to [start, start+rows), and not an
\* error.
C12_FallbackAnswersStored ==
    solr.kind = "mismatch"
    => /\ calls = << >>
       /\ bibcode = library.bibcode
       /\ pc = "done" => result = Ok
       /\ pc = "assembled"
          => \E o \in Orderings(Keys(bibcode)) :
                /\ LocallySorted(o, bibcode, request.sort)
                /\ documents = PySlice(o, start, start + rows)

----------------------------------------------------------------------------
\* Properties of the fetch, checked under Spec.

\* C13: when the email lookup of the owner fails, by a status other than
\* 200, by an exception or by a body without an email, the read is not turned
\* into an error for it: it goes on and metadata.owner is 'Not available'.
C13_LookupFailureIsNoError ==
    (response \in {"not 200", "raises"} /\ solr.kind \notin {"mismatch", "no docs"})
    => /\ result.status # "MISSING_LIBRARY_ERROR"
       /\ metadata.owner = "Not available"

\* C14: the permission label of the requester is the first true flag of
\* the user's Permissions row in the order owner, admin, write, read; it is
\* 'none' when no flag is true, when the user has no row and when the user is
\* not resolved.  With write and read both true the label is 'write'.
C14_LabelByStrictPriority ==
    [][(pc = "idle" /\ response' \in {"200", "not 200"})
       => LET uid   == IF helper_user_exists(request'.user)
                       THEN helper_absolute_uid_to_service_uid(request'.user)
                       ELSE None
              flags == IF uid \in DOMAIN permissions THEN permissions[uid] ELSE {}
              label == metadata'.permission
          IN  /\ label \in {"owner", "admin", "write", "read", "none"}
              /\ label = "owner" <=> "owner" \in flags
              /\ label = "admin" <=> ("admin" \in flags /\ "owner" \notin flags)
              /\ label = "write" <=> ("write" \in flags
                                      /\ flags \cap {"owner", "admin"} = {})
              /\ label = "read" <=> ("read" \in flags
                                     /\ flags \cap {"owner", "admin", "write"} = {})
              /\ label = "none" <=> flags \cap {"owner", "admin", "write", "read"} = {}
      ]_vars

\* The library was fetched for a user whose write and read flags are true
C14_Witness ==
    /\ pc \in {"queried", "fallback", "assembled"}
    /\ request.user = "mary"
    /\ "mary" \in DOMAIN permissions
    /\ permissions["mary"] = {"read", "write"}
    /\ metadata.permission = "write"

\* C15: in a read that is not raw the gate decides after the bigquery was
\* made and, when it gave a response, after solr_update_library has run and
\* committed: no answer is set before, and a read answered with
\* NO_PERMISSION_ERROR may have rewritten the stored bibcodes.
C15_GateAfterReconciliation ==
    /\ pc \in {"queried", "sorting", "fallback", "assembled"} => result = NoResult
    /\ (pc = "done" /\ ~raw_library /\ result.status \in {"200", "NO_PERMISSION_ERROR"})
       => /\ queried
          /\ solr.kind \in {"response", "mismatch"}
          /\ solr.kind = "response"
             => /\ Len(calls) = 1
                /\ calls[1].before = library.bibcode
                /\ bibcode = calls[1].after

\* A read was denied after its reconciliation had rewritten the library
C15_Witness ==
    /\ pc = "done"
    /\ result = Err("NO_PERMISSION_ERROR")
    /\ Len(calls) = 1
    /\ calls[1].written
    /\ bibcode # library.bibcode

----------------------------------------------------------------------------
\* Properties of the write of solr_update_library, checked under
\* SpecReconcile.

\* C16: solr_update_library writes the stored bibcodes exactly when a stored
\* entry was remapped to another key, was given the default timestamp or was
\* dropped as a duplicate; a run that writes changes the stored dict, and a
\* run that does not leaves it exactly as it was.
C16_WritesIffChanged ==
    \A n \in DOMAIN calls :
        LET c       == calls[n]
            target  == Targets(c)
            changed == \E i \in DOMAIN c.before :
                          \/ c.before[i].timestamp = NoTimestamp
                          \/ target[i] # c.before[i].id
        IN  /\ c.written <=> changed
            /\ ~c.written => c.after = c.before
            /\ c.written
               => \/ Keys(c.after) # Keys(c.before)
                  \/ \E i \in DOMAIN c.before :
                        /\ c.before[i].timestamp = NoTimestamp
                        /\ HasKey(c.after, c.before[i].id)
                        /\ Timestamp(c.after, c.before[i].id) = date_created
            /\ c.updates.num_updated > 0 => c.written
            /\ c.updates.duplicates_removed > 0 => c.written
            /\ n = Len(calls) => bibcode = c.after

\* A run that wrote only default timestamps, then a run that wrote nothing
C16_Witness ==
    /\ Len(calls) = 2
    /\ calls[1].written
    /\ calls[1].updates.num_updated = 0
    /\ calls[1].docs # << >>
    /\ ~calls[2].written
    /\ calls[2].before # << >>

\* C20 as claimed: after solr_update_library every stored bibcode has a
\* timestamp, and every entry stored before keeps its timestamp (the default
\* one if it had none) under its own key or under the canonical bibcode it
\* was remapped to.  Stated for the runs in which no canonical bibcode of an
\* alternate is stored itself, where the earliest entry is the one kept.
C20_EveryEntryKeepsTimestamp ==
    (/\ calls # << >>
     /\ \A j \in DOMAIN LastCall.before :
           \/ Target(LastCall.before[j].id, LastCall.docs) = LastCall.before[j].id
           \/ ~HasKey(LastCall.before, Target(LastCall.before[j].id, LastCall.docs)))
    => /\ \A i \in DOMAIN bibcode : bibcode[i].timestamp # NoTimestamp
       /\ \A j \in DOMAIN LastCall.before :
             LET e == LastCall.before[j]
                 t == Target(e.id, LastCall.docs)
             IN  HasKey(bibcode, t) /\ Timestamp(bibcode, t) = Stamp(e)

\* C20, amended: after solr_update_library every stored bibcode has a
\* timestamp, which is that of a stored entry kept under this key or remapped
\* to it, the default one if that entry had none; an entry that stays under
\* its own key, and an entry that is the only one remapped to its canonical
\* bibcode, keeps its timestamp there.
C20_EveryStoredHasTimestamp ==
    calls # << >> =>
        LET before == LastCall.before
            target == Targets(LastCall)
        IN  /\ \A i \in DOMAIN bibcode : bibcode[i].timestamp # NoTimestamp
            /\ \A i \in DOMAIN bibcode :
                  \E j \in DOMAIN before :
                     /\ target[j] = bibcode[i].id
                     /\ Stamp(before[j]) = bibcode[i].timestamp
            /\ \A j \in DOMAIN before :
                  (\/ target[j] = before[j].id
                   \/ \A k \in DOMAIN before : k # j => target[k] # target[j])
                  => /\ HasKey(bibcode, target[j])
                     /\ Timestamp(bibcode, target[j]) = Stamp(before[j])

\* A run remapped an entry without a timestamp and kept a timestamped one
C20_Witness ==
    /\ calls # << >>
    /\ \E j, k \in DOMAIN LastCall.before :
          /\ LastCall.before[j].timestamp = NoTimestamp
          /\ Target(LastCall.before[j].id, LastCall.docs) # LastCall.before[j].id
          /\ LastCall.before[k].timestamp \notin {NoTimestamp, date_created}
          /\ HasKey(bibcode, LastCall.before[k].id)
    /\ Len(bibcode) = 2
    /\ \A i \in DOMAIN bibcode : bibcode[i].timestamp # NoTimestamp

----------------------------------------------------------------------------
\* Properties of the errors of the read, checked under Spec.

\* C17: a read that ends with MISSING_LIBRARY_ERROR, for an unknown library
\* or for an exception between the fetch and the assembly of the answer, has
\* left the stored bibcodes as they were: the stored bibcodes change only in a
\* call of solr_update_library, every call of a request is in calls, and such
\* a read has made none.
C17_MissingLibraryWritesNothing ==
    /\ [](pc = "idle" => calls = << >>)
    /\ [](result.status = "MISSING_LIBRARY_ERROR" => calls = << >>)
    /\ [][bibcode' # bibcode
          => calls' = Append(calls, Call(bibcode, solr.docs))]_vars

\* A read ended with MISSING_LIBRARY_ERROR after the fetch and the bigquery
C17_Witness ==
    /\ pc = "done"
    /\ result = Err("MISSING_LIBRARY_ERROR")
    /\ queried
    /\ solr.kind = "mismatch"
    /\ library.bibcode # << >>
    /\ bibcode = library.bibcode

----------------------------------------------------------------------------
\* The order of the raw library, checked under SpecRead.

\* C18: the raw library is given in the order of the fallback: when no
\* response of the bigquery is used, the stored bibcodes are ordered by stored
\* timestamp, ascending for 'time asc' and descending for 'time desc', and as
\* strings for every other sort, and then cut to [start, start+rows).  Stated
\* for stored bibcodes that all have a timestamp.
C18_RawOrdersAsFallback ==
    (/\ pc = "assembled"
     /\ solr.kind \in {"raw", "mismatch"}
     /\ \A i \in DOMAIN bibcode : bibcode[i].timestamp # NoTimestamp)
    => \E o \in Orderings(Keys(bibcode)) :
          /\ LocallySorted(o, bibcode, request.sort)
          /\ documents = PySlice(o, start, start + rows)

----------------------------------------------------------------------------
\* Concurrent reconciliations, checked under SpecConcurrent.

\* C19: when two sessions have run solr_update_library for the same library
\* with the same answer, in whatever order they read and committed, the
\* stored bibcodes are those that one run on the bibcodes stored at first
\* gives.
C19_ConcurrentRunsAgree ==
    (\A p \in Sessions : pc[p] = "done")
    => /\ Len(calls) = 2
       /\ calls[1].before = library[1].bibcode
       /\ bibcode = calls[1].after
       /\ bibcode = calls[2].after

\* Both sessions read the same stored bibcodes and both wrote
C19_Witness ==
    /\ \A p \in Sessions : pc[p] = "done"
    /\ Len(calls) = 2
    /\ calls[2].before = calls[1].before
    /\ calls[1].written
    /\ calls[2].written
    /\ calls[1].updates.duplicates_removed > 0

----------------------------------------------------------------------------
\* The time of the last modification, checked under SpecMutate.

----------------------------------------------------------------------------
\* The dictionary solr_update_library returns, checked under SpecReconcile.

\* Whether a doc of the answer lists the bibcode as an alternate
Listed(k, docs) == \E d \in DOMAIN docs : k \in docs[d].alternate_bibcode

\* C22: num_updated is the length of update_list and the number of stored
\* bibcodes that a doc lists as an alternate and no doc has as its bibcode,
\* entries given the default timestamp not counted; update_list has one pair
\* (old, new) for each of them, in the order of the stored dict, with new the
\* bibcode of a doc that lists old, the one the mapping of the answer gives.
C22_UpdatesCountRemaps ==
    \A n \in DOMAIN calls :
        LET c        == calls[n]
            remapped == SelectSeq(c.before,
                                  LAMBDA e : /\ e.id \notin canonical_bibcodes(c.docs)
                                             /\ Listed(e.id, c.docs))
            list     == c.updates.update_list
        IN  /\ c.updates.num_updated = Len(list)
            /\ c.updates.num_updated = Len(remapped)
            /\ \A i \in DOMAIN list :
                  /\ list[i][1] = remapped[i].id
                  /\ list[i][2] = alternate_bibcodes(c.docs)[list[i][1]]
                  /\ \E d \in DOMAIN c.docs :
                        /\ c.docs[d].bibcode = list[i][2]
                        /\ list[i][1] \in c.docs[d].alternate_bibcode

\* A run remapped one stored bibcode and gave the default timestamp to
\* another one, which it kept under its key
C22_Witness ==
    /\ calls # << >>
    /\ calls[1].updates.num_updated = 1
    /\ \E i \in DOMAIN calls[1].before :
          /\ calls[1].before[i].timestamp = NoTimestamp
          /\ Targets(calls[1])[i] = calls[1].before[i].id
          /\ HasKey(calls[1].after, calls[1].before[i].id)

\* The docs of the answer that list the bibcode as an alternate, by position
Listing(k, docs) == {d \in DOMAIN docs : k \in docs[d].alternate_bibcode}

Last(S) == CHOOSE x \in S : \A y \in S : y <= x

\* C23: a bibcode that several docs of the answer list as an alternate is
\* mapped to the bibcode of the last of these docs, and a stored copy of it
\* that is not canonical is stored afterwards under the bibcode of that last
\* doc, with the pair (old, new) in update_list.
C23_LastRecordWins ==
    \A n \in DOMAIN calls :
        LET c == calls[n]
        IN  /\ \A k \in Ids :
                  Listing(k, c.docs) # {}
                  => alternate_bibcodes(c.docs)[k]
                        = c.docs[Last(Listing(k, c.docs))].bibcode
            /\ \A i \in DOMAIN c.before :
                  LET k == c.before[i].id
                  IN  (k \notin canonical_bibcodes(c.docs) /\ Listing(k, c.docs) # {})
                      => LET new == c.docs[Last(Listing(k, c.docs))].bibcode
                         IN  /\ HasKey(c.after, new)
                             /\ ~HasKey(c.after, k)
                             /\ \E j \in DOMAIN c.updates.update_list :
                                   c.updates.update_list[j] = <<k, new>>

\* A run remapped a stored bibcode that two docs list as an alternate
C23_Witness ==
    /\ calls # << >>
    /\ \E i \in DOMAIN calls[1].before :
          LET k == calls[1].before[i].id
          IN  /\ Cardinality(Listing(k, calls[1].docs)) = 2
              /\ k \notin canonical_bibcodes(calls[1].docs)
              /\ HasKey(bibcode, calls[1].docs[2].bibcode)
              /\ ~HasKey(bibcode, calls[1].docs[1].bibcode)
              /\ ~HasKey(bibcode, k)

\* The stored canonical bibcodes of the call that an alternate stored before
\* them was remapped to, by position
Absorbed(c) ==
    LET target == Targets(c)
    IN  {i \in DOMAIN c.before :
            /\ target[i] = c.before[i].id
            /\ \E j \in 1..(i - 1) :
                  target[j] = c.before[i].id /\ c.before[j].id # c.before[i].id}

\* C24 as claimed: the number of bibcodes stored after solr_update_library
\* is the number stored before it minus duplicates_removed.
C24_DuplicatesAccountForLoss ==
    \A n \in DOMAIN calls :
        Len(calls[n].after)
            = Len(calls[n].before) - calls[n].updates.duplicates_removed

\* C24, amended: the number of bibcodes stored after solr_update_library is
\* the number stored before it minus duplicates_removed minus the number of
\* stored canonical bibcodes that an alternate iterated before them was
\* remapped to; it is never above the number before minus duplicates_removed.
C24_DuplicatesAndAbsorbedAccountForLoss ==
    \A n \in DOMAIN calls :
        LET c == calls[n]
        IN  /\ Len(c.after) = Len(c.before) - c.updates.duplicates_removed
                                  - Cardinality(Absorbed(c))
            /\ Len(c.after) <= Len(c.before) - c.updates.duplicates_removed
            /\ Len(c.after) = Cardinality({Targets(c)[i] : i \in DOMAIN c.before})

\* A run remapped an alternate to a canonical bibcode stored behind it: one
\* bibcode less is stored and no duplicate was counted
C24_Witness ==
    /\ calls # << >>
    /\ calls[1].updates.duplicates_removed = 0
    /\ calls[1].updates.num_updated = 1
    /\ Absorbed(calls[1]) = {2}
    /\ Len(calls[1].before) = 2
    /\ Len(bibcode) = 1

----------------------------------------------------------------------------
\* The count of documents in the metadata, checked under SpecRead.

\* C25: a read answered 200 reports in metadata.num_documents the number of
\* bibcodes stored once its solr_update_library has committed.
C25_NumDocumentsIsStoredCount ==
    (pc = "done" /\ result = Ok) => metadata.num_documents = Len(bibcode)

----------------------------------------------------------------------------
\* The permission label and the gate, checked under Spec, where permissions
\* are granted and revoked between the transactions of a read.

\* C26: a read of a private library answered 200 without the special token
\* carries a metadata.permission among owner, admin, write and read, never
\* 'none', also when the permissions changed between the fetch and the gate.
C26_LabelAgreesWithGate ==
    (pc = "done" /\ result = Ok /\ ~library.public /\ ~token)
    => metadata.permission \in {"owner", "admin", "write", "read"}

----------------------------------------------------------------------------
\* The reconciliation of a read while documents are added and removed,
\* checked under SpecMutate.  In the step of solr_update_library, bibcode is
\* what is stored when its transaction runs, bibcode' what it leaves and
\* library.bibcode what the bigquery was made for.

\* The canonical bibcodes that stored alternates are remapped to
Remapped(stored, docs) ==
    {alternate_bibcodes(docs)[k] :
        k \in (Keys(stored) \cap DOMAIN alternate_bibcodes(docs))
                  \ canonical_bibcodes(docs)}

\* C27 as claimed: a bibcode removed between the bigquery and the
\* transaction of solr_update_library is not stored again, a bibcode added in
\* between is kept as it is, and the only new keys are canonical bibcodes of
\* alternates stored at the transaction.
C27_ReconcilesStoredBibcodes ==
    [][(pc = "queried" /\ pc' # "queried")
       => /\ \A k \in Keys(library.bibcode) \ Keys(bibcode) : ~HasKey(bibcode', k)
          /\ \A i \in DOMAIN bibcode :
                bibcode[i].id \notin Keys(library.bibcode)
                => \E j \in DOMAIN bibcode' : bibcode'[j] = bibcode[i]
          /\ Keys(bibcode') \ Keys(bibcode) \subseteq Remapped(bibcode, solr.docs)
      ]_vars

\* C27, amended: a bibcode removed between the bigquery and the transaction
\* of solr_update_library is stored again only as the canonical bibcode of
\* an alternate stored at the transaction; a bibcode added in between is
\* kept with its timestamp unless the answer lists it as an alternate and
\* not as a canonical bibcode, and is then remapped as every stored
\* alternate is; the only new keys are canonical bibcodes of alternates
\* stored at the transaction.
C27_ReconcilesStoredAndRemapsAdded ==
    [][(pc = "queried" /\ pc' # "queried")
       => /\ \A k \in Keys(library.bibcode) \ Keys(bibcode) :
                HasKey(bibcode', k) => k \in Remapped(bibcode, solr.docs)
          /\ \A i \in DOMAIN bibcode :
                bibcode[i].id \notin Keys(library.bibcode)
                => IF \/ bibcode[i].id \in canonical_bibcodes(solr.docs)
                      \/ ~Listed(bibcode[i].id, solr.docs)
                   THEN \E j \in DOMAIN bibcode' : bibcode'[j] = bibcode[i]
                   ELSE /\ ~HasKey(bibcode', bibcode[i].id)
                        /\ HasKey(bibcode', alternate_bibcodes(solr.docs)[bibcode[i].id])
          /\ Keys(bibcode') \ Keys(bibcode) \subseteq Remapped(bibcode, solr.docs)
      ]_vars

\* A solr_update_library has written after one of the bibcodes of its
\* bigquery was removed and another bibcode was added: the first is not
\* stored, the second is
C27_Witness ==
    /\ pc = "assembled"
    /\ Len(calls) = 1
    /\ calls[1].written
    /\ bibcode = calls[1].after
    /\ \E k \in Keys(library.bibcode) \ Keys(calls[1].before) : ~HasKey(bibcode, k)
    /\ \E i \in DOMAIN calls[1].before :
          /\ calls[1].before[i].id \notin Keys(library.bibcode)
          /\ \E j \in DOMAIN bibcode : bibcode[j] = calls[1].before[i]

====
